---- MODULE Spec2Model ----
(***************************************************************************)
(* Picha client: the Index page (src/src/pages/Index.tsx) and the         *)
(* ScarcityIndicator component (src/src/components/ScarcityIndicator.tsx).*)
(* JavaScript objects are records whose DOMAIN holds the keys present;    *)
(* a missing key is `undefined`.  React state is a variable per useState. *)
(***************************************************************************)
EXTENDS Integers, Sequences, FiniteSets, TLC

VARIABLES
    phase,                    \* Index component: "new" | "mounted" | "unmounted"
    mode,                     \* useState<'basic' | 'advanced'>
    customPrompt,             \* useState(''): [pad, core] = whitespace around, trimmed length
    selectedArtist,           \* useState('')
    selectedEvent,            \* useState('')
    nftResult,                \* useState<NFTData | null>
    evolutionPeriod,          \* useState<number>(30)
    wallet,                   \* useState<WalletInfo | null>
    loadingStates,            \* useState<LoadingStates>
    errors,                   \* useState<{...}>: a key is present only when set
    artists,                  \* useState<string[]>
    events,                   \* useState<string[]>
    retryCount,               \* useState(0)
    allCombinationsScarcity,  \* useState<CombinationScarcityAPI[]>
    socket,                   \* socketRef.current: Null or [connected, listeners]
    isWebSocketConnected,     \* useState(false)
    combosReq,                \* GET /api/combinations: "idle" | "pending" | "done"
    initFetches,              \* fetchInitialData calls awaiting their responses
    retryTimers,              \* setTimeout delays scheduled by retryFetchInitialData
    retryLog,                 \* history: delays of the retries since the last successful fetch
    createReqs,               \* POST /api/create-nft requests in flight
    nftFetches,               \* GET /api/nft/<id> requests in flight (set of ids)
    isXConnected,             \* useState<boolean>(false)
    xUsername,                \* useState<string | null>: Null or [str |-> name]
    xUserId,                  \* useState<string | null>: Null or [str |-> id]
    storage,                  \* localStorage: key |-> JSON text, for the keys present
    url,                      \* window.location.search: parameter |-> value
    lastWalletOp,             \* history: the last wallet handler run, in any page load
    indicator,                \* the ScarcityIndicator rendered by Index, with its socket
    pushed,                   \* last scarcity_update handled and not yet followed by
                              \* a handled new_mint (Null when none)
    evolutionRooms,           \* socket.emit of the evolution room effect: the messages of
                              \* its latest run and the last message emitted per NFT id
    connector,                \* WalletConnector: authClient, the mock auth client, authState,
                              \* pending logins and the calls of onWalletConnected
    trail                     \* record of the last operation, read by the properties

formVars == <<mode, customPrompt, selectedArtist, selectedEvent, evolutionPeriod, wallet>>
dataVars == <<artists, events, retryCount, initFetches, retryTimers, retryLog>>
liveVars == <<allCombinationsScarcity, socket, isWebSocketConnected, combosReq,
              nftFetches, pushed>>
sessionVars == <<isXConnected, xUsername, xUserId, storage, url, lastWalletOp>>
vars == <<phase, nftResult, loadingStates, errors, createReqs, trail, indicator, evolutionRooms,
          connector,
          formVars, dataVars, liveVars, sessionVars>>

-----------------------------------------------------------------------------
(* Bounds and value domains *)

MaxCombos == 2
MaxMinted == 2
MaxInFlight == 1
MaxClickRequests == 2
MaxConnects == 3
MaxRetries == 5
MaxPending == 2
MaxListeners == 2

\* values the server reports: total_limit of a combination, total_supply and
\* remaining_slots of a scarcity_update
Limits == {1}
Supplies == {2}
Slots == {0, 1}

Artists == {"Da Vinci", "Monet"}
EventTypes == {"architecture"}
NftIds == {"nft-1", "nft-2"}

Null == [null |-> TRUE]

DefaultEvolutionPeriod == 30
MinPromptLength == 10
MaxPromptLength == 500
TextareaMaxLength == 500
AccountIdLength == 32
BaseUrl == "http://localhost:5000"
BackoffCap == 5000

\* r.f || d for a numeric field (undefined and 0 are falsy)
OrNum(r, f, d) == IF f \in DOMAIN r /\ r[f] # 0 THEN r[f] ELSE d

\* {...base, ...over}
Spread(base, over) == over @@ base

\* A combination as GET /api/combinations returns it
Combo(a, e, limit, minted) ==
    [artist |-> a, event_type |-> e,
     is_available |-> limit - minted > 0,
     scarcity_info |-> [total_limit |-> limit,
                        minted_count |-> minted,
                        remaining_slots |-> limit - minted,
                        is_sold_out |-> limit - minted <= 0]]

ComboValues ==
    UNION {{Combo(a, e, l, m) : a \in Artists, e \in EventTypes, m \in 0..l} : l \in Limits}

SeqsUpTo(S, n) == UNION {[1..k -> S] : k \in 0..n}

Snapshots == SeqsUpTo(ComboValues, MaxCombos)

\* response.data of GET /api/combinations; an array is tagged so that
\* Array.isArray can be decided
JsArray(s) == [type |-> "array", items |-> s]
IsArray(v) == v.type = "array"

CombosResponses ==
    {[ok |-> TRUE, data |-> [combinations |-> JsArray(s)]] : s \in Snapshots}
    \cup {[ok |-> TRUE, data |-> [combinations |-> [type |-> "object"]]],
          [ok |-> TRUE, data |-> [message |-> "no data"]],
          [ok |-> FALSE]}

ScarcityUpdateMessages ==
    [artist : Artists, event_type : EventTypes,
     remaining_slots : Slots, total_supply : Supplies,
     is_available : BOOLEAN]

NewMintMessages == [artist : Artists, event_type : EventTypes, nft_id : NftIds]

EvolutionUpdateMessages == [nft_id : NftIds]

SocketEvents == {"new_mint", "scarcity_update", "evolution_update"}

-----------------------------------------------------------------------------
(* Pure parts of the handlers *)

SameCombination(combo, data) ==
    combo.artist = data.artist /\ combo.event_type = data.event_type

ScarcityInfoOf(combo) ==
    IF "scarcity_info" \in DOMAIN combo THEN combo.scarcity_info ELSE <<>>

\* handleScarcityUpdate deriving is_available from the slots, as handleNewMint does
ApplyScarcityUpdateDerived(combo, data) ==
    IF SameCombination(combo, data)
    THEN Spread(combo,
             [scarcity_info |->
                 Spread(ScarcityInfoOf(combo),
                        [remaining_slots |-> data.remaining_slots,
                         total_supply |-> data.total_supply,
                         minted_count |-> data.total_supply - data.remaining_slots,
                         is_sold_out |-> data.remaining_slots <= 0]),
              is_available |-> data.remaining_slots > 0])
    ELSE combo

\* the map callback of handleScarcityUpdate
ApplyScarcityUpdate(combo, data) ==
    IF SameCombination(combo, data)
    THEN LET newMintedCount == data.total_supply - data.remaining_slots
         IN  Spread(combo,
                 [scarcity_info |->
                     Spread(ScarcityInfoOf(combo),
                            [remaining_slots |-> data.remaining_slots,
                             total_supply |-> data.total_supply,
                             minted_count |-> newMintedCount,
                             is_sold_out |-> data.remaining_slots <= 0]),
                  is_available |-> data.is_available])
    ELSE combo

\* the map callback of handleNewMint
\* handleNewMint without the recalculation of is_available
ApplyNewMintKeepingAvailable(combo, data) ==
    IF SameCombination(combo, data)
    THEN LET currentMinted == OrNum(ScarcityInfoOf(combo), "minted_count", 0)
             currentTotal == OrNum(ScarcityInfoOf(combo), "total_limit", 0)
         IN  Spread(combo,
                 [scarcity_info |->
                     Spread(ScarcityInfoOf(combo),
                            [minted_count |-> currentMinted + 1,
                             remaining_slots |-> currentTotal - (currentMinted + 1),
                             is_sold_out |-> currentTotal - (currentMinted + 1) <= 0])])
    ELSE combo

\* the map callback of handleNewMint
ApplyNewMint(combo, data) ==
    IF SameCombination(combo, data)
    THEN LET currentMinted == OrNum(ScarcityInfoOf(combo), "minted_count", 0)
             currentTotal == OrNum(ScarcityInfoOf(combo), "total_limit", 0)
             newMintedCount == currentMinted + 1
             newRemainingSlots == currentTotal - newMintedCount
         IN  Spread(combo,
                 [scarcity_info |->
                     Spread(ScarcityInfoOf(combo),
                            [minted_count |-> newMintedCount,
                             remaining_slots |-> newRemainingSlots,
                             is_sold_out |-> newRemainingSlots <= 0]),
                  is_available |-> newRemainingSlots > 0])
    ELSE combo

\* setAllCombinationsScarcity(prev => prev.map(...)) of handleScarcityUpdate
AfterScarcityUpdate(prev, data) ==
    [i \in DOMAIN prev |-> ApplyScarcityUpdate(prev[i], data)]

\* setAllCombinationsScarcity(prev => prev.map(...)) of handleNewMint
AfterNewMint(prev, data) ==
    [i \in DOMAIN prev |-> ApplyNewMint(prev[i], data)]

\* the cache after fetchAllCombinationsScarcity has handled its response
AfterCombinationsResponse(prev, resp) ==
    IF /\ resp.ok
       /\ "combinations" \in DOMAIN resp.data
       /\ IsArray(resp.data.combinations)
    THEN resp.data.combinations.items
    ELSE prev

\* fetchAllCombinationsScarcity resetting the flag in the try block only
LoadingAfterCombinationsNoFinally(prev, resp) ==
    IF resp.ok THEN [prev EXCEPT !.combinations = FALSE] ELSE prev

\* the loading flags after fetchAllCombinationsScarcity's finally block
LoadingAfterCombinations(prev, resp) == [prev EXCEPT !.combinations = FALSE]

\* setErrors(prev => ({...prev, [k]: v})) and clearErrors(k)
SetError(errs, k, v) == (k :> v) @@ errs
ClearError(errs, k) == [x \in DOMAIN errs \ {k} |-> errs[x]]

\* an effect that returns no cleanup
SocketWithoutCleanup(sock) == sock

\* the socket after the cleanup of the WebSocket effect
SocketAfterCleanup(sock) ==
    [connected |-> FALSE, listeners |-> sock.listeners \ SocketEvents]

\* socket.io hands an event to a listener only on a connected socket
Delivered(event) ==
    socket # Null /\ socket.connected /\ event \in socket.listeners

\* response.data of GET /api/nft/<id>
NftResponses(id) ==
    {[ok |-> TRUE, data |-> [id |-> id, version |-> 2, timestamp |-> 17]],
     [ok |-> TRUE, data |-> Null],
     [ok |-> FALSE]}

-----------------------------------------------------------------------------
(* Form validation and the create-nft request *)

\* a string is [pad, core]: core characters between pad characters of leading
\* and trailing whitespace; trim() drops the pad
Trim(str) == [pad |-> 0, core |-> str.core]
Length(str) == str.pad + str.core

\* a || b on strings ('' is falsy)
OrStr(a, b) == IF a # "" THEN a ELSE b

\* r.f || d for a string field (undefined and '' are falsy)
FieldOrStr(r, f, d) == IF f \in DOMAIN r /\ r[f] # "" THEN r[f] ELSE d

\* r.f || d for an object field (undefined is falsy)
FieldOr(r, f, d) == IF f \in DOMAIN r THEN r[f] ELSE d

\* `${r.f}` in a template literal
Template(r, f) == IF f \in DOMAIN r THEN r[f] ELSE "undefined"

Undefined == [undefined |-> TRUE]

\* getScarcityForCombination: scarcity_info of the first matching combination
GetScarcityForCombination(cache, artist, eventType) ==
    LET matches == {i \in DOMAIN cache :
                       cache[i].artist = artist /\ cache[i].event_type = eventType}
    IN  IF Len(cache) = 0 \/ matches = {}
        THEN Undefined
        ELSE LET first == CHOOSE i \in matches : \A j \in matches : i <= j
             IN  FieldOr(cache[first], "scarcity_info", Undefined)

\* selectedComboScarcity?.is_sold_out
IsSoldOut(info) == "is_sold_out" \in DOMAIN info /\ info.is_sold_out

SoldOutMessage(artist, eventType) ==
    "The " \o artist \o " - " \o eventType \o " combination is currently sold out."

WalletMessage == "Please connect your wallet to generate NFTs"

\* validateForm without the sold-out check
ValidateFormNoScarcity(w, m, prompt, artist, eventType, cache) ==
    IF w = Null THEN WalletMessage
    ELSE IF m = "basic"
    THEN IF artist = "" THEN "Please select an artist"
         ELSE IF eventType = "" THEN "Please select an event"
         ELSE ""
    ELSE IF Trim(prompt).core = 0 THEN "Please enter a custom prompt"
         ELSE IF Length(Trim(prompt)) < MinPromptLength
         THEN "Custom prompt must be at least 10 characters long"
         ELSE IF Length(Trim(prompt)) > MaxPromptLength
         THEN "Custom prompt must be less than 500 characters"
         ELSE ""

\* validateForm: the message, or "" for null
ValidateFormUntrimmed(w, m, prompt, artist, eventType, cache) ==
    IF w = Null THEN WalletMessage
    ELSE IF m = "basic"
    THEN IF artist = "" THEN "Please select an artist"
         ELSE IF eventType = "" THEN "Please select an event"
         ELSE IF IsSoldOut(GetScarcityForCombination(cache, artist, eventType))
         THEN SoldOutMessage(artist, eventType)
         ELSE ""
    ELSE IF Length(prompt) = 0 THEN "Please enter a custom prompt"
         ELSE IF Length(prompt) < MinPromptLength
         THEN "Custom prompt must be at least 10 characters long"
         ELSE IF Length(prompt) > MaxPromptLength
         THEN "Custom prompt must be less than 500 characters"
         ELSE ""

ValidateForm(w, m, prompt, artist, eventType, cache) ==
    IF w = Null THEN WalletMessage
    ELSE IF m = "basic"
    THEN IF artist = "" THEN "Please select an artist"
         ELSE IF eventType = "" THEN "Please select an event"
         ELSE IF IsSoldOut(GetScarcityForCombination(cache, artist, eventType))
         THEN SoldOutMessage(artist, eventType)
         ELSE ""
    ELSE IF Trim(prompt).core = 0 THEN "Please enter a custom prompt"
         ELSE IF Length(Trim(prompt)) < MinPromptLength
         THEN "Custom prompt must be at least 10 characters long"
         ELSE IF Length(Trim(prompt)) > MaxPromptLength
         THEN "Custom prompt must be less than 500 characters"
         ELSE ""

\* wallet.accountId || wallet.principal
OwnerAddressAccountFirst(w) == OrStr(w.accountId, w.principal)

\* const ownerAddress = wallet.principal || wallet.accountId
OwnerAddress(w) == OrStr(w.principal, w.accountId)

\* requestData of handleUpdatePreview (the random uniqueness factors left out)
RequestData(w, m, prompt, artist, eventType, period) ==
    [mode |-> IF m = "basic" THEN "selection" ELSE "prompt",
     artist |-> OrStr(artist, "Da Vinci"),
     event_type |-> OrStr(eventType, "architecture"),
     owner_address |-> OwnerAddress(w),
     user_prompt |-> IF m = "advanced" THEN Trim(prompt) ELSE Null,
     wallet_principal |-> w.principal,
     wallet_account_id |-> w.accountId,
     evolution_period_days |-> period]

\* createAPIError(error, context)
CreateAPIError(error, context) ==
    IF error.kind = "axios"
    THEN LET data == IF "data" \in DOMAIN error THEN error.data ELSE <<>>
         IN  [message |-> FieldOrStr(data, "error",
                              FieldOrStr(data, "message",
                                  OrStr(error.message,
                                        "Network error occurred while " \o context)))]
             @@ (IF "status" \in DOMAIN error THEN [status |-> error.status] ELSE <<>>)
             @@ (IF "code" \in DOMAIN error THEN [code |-> error.code] ELSE <<>>)
    ELSE [message |-> error.message \o " while " \o context]

\* the catch block without its status 500 branch
GenerationErrorNoServerBranch(error) ==
    IF error.kind = "axios"
    THEN IF "code" \in DOMAIN error /\ error.code = "ECONNABORTED"
         THEN [message |-> "NFT generation timed out. The server may be busy, please try again.",
               code |-> "TIMEOUT"]
         ELSE IF "status" \in DOMAIN error /\ error.status = 429
         THEN [message |-> "Too many requests. Please wait a moment before trying again.",
               status |-> 429, code |-> "RATE_LIMIT"]
         ELSE CreateAPIError(error, "generating NFT")
    ELSE CreateAPIError(error, "generating NFT")

\* the catch block of handleUpdatePreview: the value of errors.nftGeneration
GenerationError(error) ==
    IF error.kind = "axios"
    THEN IF "code" \in DOMAIN error /\ error.code = "ECONNABORTED"
         THEN [message |-> "NFT generation timed out. The server may be busy, please try again.",
               code |-> "TIMEOUT"]
         ELSE IF "status" \in DOMAIN error /\ error.status = 429
         THEN [message |-> "Too many requests. Please wait a moment before trying again.",
               status |-> 429, code |-> "RATE_LIMIT"]
         ELSE IF "status" \in DOMAIN error /\ error.status = 500
         THEN [message |-> "Server error occurred during NFT generation. Please try again.",
               status |-> 500, code |-> "SERVER_ERROR"]
         ELSE CreateAPIError(error, "generating NFT")
    ELSE CreateAPIError(error, "generating NFT")

\* the NFT object picked out of response.data, or Undefined when the
\* response has none of the accepted shapes
NftOfResponse(data) ==
    IF "nft_id" \in DOMAIN data THEN data
    ELSE IF "nft" \in DOMAIN data THEN data.nft
    ELSE IF "data" \in DOMAIN data THEN data.data
    ELSE IF "result" \in DOMAIN data THEN data.result
    ELSE Undefined

ZeroTraits ==
    [luminosity |-> 0, architectural_complexity |-> 0, ethereal_quality |-> 0,
     evolution_speed |-> 0, style_intensity |-> 0, temporal_resonance |-> 0]

NoScarcity ==
    [combination |-> "", total_limit |-> 0, minted_count |-> 0, rarity_score |-> 0,
     price_multiplier |-> 0, is_sold_out |-> FALSE, remaining_slots |-> 0]

\* image_uri: `http://localhost:5000${nft.image_url}` || nft.image_uri || ''
ImageUri(nft) ==
    OrStr(BaseUrl \o Template(nft, "image_url"), FieldOrStr(nft, "image_uri", ""))

\* nftData built by handleUpdatePreview; clo holds the state the handler closed
\* over, now is Date.now()
BuildNftData(nft, clo, now) ==
    [id |-> FieldOrStr(nft, "nft_id", "nft-" \o ToString(now)),
     image_uri |-> ImageUri(nft),
     artist |-> FieldOrStr(nft, "artist", OrStr(clo.selectedArtist, "Unknown Artist")),
     event_type |-> FieldOrStr(nft, "event_type",
                               OrStr(clo.selectedEvent, "Unknown Event")),
     version |-> OrNum(nft, "version", 1),
     timestamp |-> OrNum(nft, "timestamp", now \div 1000),
     genetic_traits |-> FieldOr(nft, "genetic_traits", ZeroTraits),
     scarcity_info |-> FieldOr(nft, "scarcity_info", NoScarcity),
     prompt |-> FieldOr(nft, "prompt",
                        IF clo.mode = "advanced"
                        THEN clo.customPrompt
                        ELSE [text |-> clo.selectedArtist \o " style " \o clo.selectedEvent]),
     evolution_history |-> FieldOr(nft, "evolution_history", <<>>),
     evolution_period_days |-> OrNum(nft, "evolution_period_days", clo.evolutionPeriod)]

\* nftResult after the response or the failure of POST /api/create-nft
NftResultAfterCreate(prev, outcome, clo, now) ==
    IF outcome.kind = "response" /\ NftOfResponse(outcome.data) # Undefined
    THEN BuildNftData(NftOfResponse(outcome.data), clo, now)
    ELSE prev

UnexpectedFormat ==
    [kind |-> "error", message |-> "Server returned unexpected response format"]

InvalidWallet ==
    [kind |-> "error",
     message |-> "Invalid wallet information - no principal or account ID available"]

\* what handleUpdatePreview's try block throws for an outcome, Null when nothing
ThrownBy(outcome) ==
    IF outcome.kind = "response"
    THEN IF NftOfResponse(outcome.data) = Undefined THEN UnexpectedFormat ELSE Null
    ELSE outcome

\* errors after the response or the failure of POST /api/create-nft
ErrorsAfterCreate(errs, outcome) ==
    IF ThrownBy(outcome) = Null
    THEN errs
    ELSE SetError(errs, "nftGeneration", GenerationError(ThrownBy(outcome)))

-----------------------------------------------------------------------------
(* Values the server and the user supply *)

Without(r, keys) == [k \in DOMAIN r \ keys |-> r[k]]

FullNft ==
    [nft_id |-> "nft-1", image_url |-> "/images/nft-1.png", image_uri |-> "ipfs://nft-1",
     artist |-> "Monet", event_type |-> "architecture", version |-> 2, timestamp |-> 17,
     genetic_traits |-> [ZeroTraits EXCEPT !.luminosity = 5],
     scarcity_info |-> [NoScarcity EXCEPT !.combination = "Monet_architecture"],
     prompt |-> [text |-> "Monet paints a bridge"],
     evolution_history |-> <<[version |-> "1"]>>,
     evolution_period_days |-> 7]

NftBodies ==
    {FullNft,
     Without(FullNft, {"image_url"}),
     Without(FullNft, {"image_url", "image_uri"}),
     [nft_id |-> "nft-2", image_url |-> ""],
     [nft_id |-> "nft-2"]}

CreateResponses ==
    {[kind |-> "response", data |-> b] : b \in NftBodies}
    \cup {[kind |-> "response", data |-> [nft |-> Without(FullNft, {"nft_id"})]],
          [kind |-> "response", data |-> [data |-> FullNft]],
          [kind |-> "response", data |-> [result |-> [version |-> 3]]],
          [kind |-> "response", data |-> [status |-> "queued"]]}

Timeout ==
    [kind |-> "axios", code |-> "ECONNABORTED", message |-> "timeout of 25000ms exceeded"]

CreateFailures ==
    {Timeout,
     [kind |-> "axios", code |-> "ERR_BAD_REQUEST", status |-> 429,
      message |-> "Request failed with status code 429", data |-> [error |-> "slow down"]],
     [kind |-> "axios", code |-> "ERR_BAD_RESPONSE", status |-> 500,
      message |-> "Request failed with status code 500", data |-> [message |-> "boom"]],
     [kind |-> "axios", code |-> "ERR_BAD_REQUEST", status |-> 404,
      message |-> "Request failed with status code 404", data |-> [error |-> "no route"]],
     [kind |-> "axios", code |-> "ERR_BAD_RESPONSE", status |-> 503,
      message |-> "Request failed with status code 503"],
     [kind |-> "axios", code |-> "ERR_NETWORK", message |-> "Network Error"]}

Times == {1700000}

WalletInfos ==
    {[principal |-> "aaaaa-aa", accountId |-> "acc-1", isConnected |-> TRUE],
     [principal |-> "", accountId |-> "acc-1", isConnected |-> TRUE],
     [principal |-> "", accountId |-> "", isConnected |-> TRUE]}

\* what the textarea (maxLength={500}) can hold: blank, one character short
\* after trimming, the shortest accepted prompt, the longest prompt
Prompts ==
    {value \in {[pad |-> 2, core |-> 0], [pad |-> 1, core |-> 9],
                [pad |-> 1, core |-> 10], [pad |-> 0, core |-> 500]} :
        Length(value) <= TextareaMaxLength}

-----------------------------------------------------------------------------
(* localStorage, JSON and the X callback *)

Str(s) == [str |-> s]

\* every string a wallet, an X account or a callback parameter can hold
Strings == {"", "aaaaa-aa", "bbbbb-bb", "acc-1", "alice", "x-42"}

BooleanFields == {"isConnected"}
NumberFields == {"balance", "timestamp"}
Numbers == 0..3 \cup Times

Quoted(s) == "\"" \o s \o "\""

\* JSON.stringify of a flat object: member name |-> literal
JsonStringify(obj) ==
    [k \in DOMAIN obj |->
        IF k \in BooleanFields THEN (IF obj[k] THEN "true" ELSE "false")
        ELSE IF k \in NumberFields THEN ToString(obj[k])
        ELSE Quoted(obj[k])]

\* the value a JSON literal denotes
JsonValue(literal) ==
    IF literal = "true" THEN TRUE
    ELSE IF literal = "false" THEN FALSE
    ELSE IF \E str \in Strings : Quoted(str) = literal
    THEN CHOOSE str \in Strings : Quoted(str) = literal
    ELSE CHOOSE n \in Numbers : ToString(n) = literal

\* JSON.parse of the text of a flat object
JsonParse(text) == [k \in DOMAIN text |-> JsonValue(text[k])]

\* localStorage.setItem, localStorage.removeItem
SetItem(store, key, text) == (key :> text) @@ store
RemoveItem(store, key) == [k \in DOMAIN store \ {key} |-> store[k]]

\* checkWalletState reading walletData.principal only
RestoredWalletPrincipalOnly(store, prev) ==
    IF "connected-wallet" \in DOMAIN store
    THEN LET walletData == JsonParse(store["connected-wallet"])
         IN  IF FieldOrStr(walletData, "principal", "") # "" THEN walletData ELSE prev
    ELSE prev

\* checkWalletState: the wallet state after the mount effect
RestoredWallet(store, prev) ==
    IF "connected-wallet" \in DOMAIN store
    THEN LET walletData == JsonParse(store["connected-wallet"])
         IN  IF \/ FieldOrStr(walletData, "principal", "") # ""
                \/ FieldOrStr(walletData, "accountId", "") # ""
             THEN walletData
             ELSE prev
    ELSE prev

\* handleWalletDisconnected keeping the stored X status
StorageKeepingXAuth(store) == RemoveItem(store, "connected-wallet")

\* the removeItem calls of handleWalletDisconnected
StorageAfterDisconnect(store) ==
    RemoveItem(RemoveItem(store, "connected-wallet"), "x-auth-status")

\* params.get(name) || '' (null and '' are both falsy)
Param(u, name) == IF name \in DOMAIN u THEN u[name] ELSE ""

\* the branch the callback effect takes
XCallback(u) ==
    IF /\ Param(u, "auth_status") = "success" /\ Param(u, "platform") = "x"
       /\ Param(u, "username") # "" /\ Param(u, "user_id") # ""
       /\ Param(u, "wallet_principal") # ""
    THEN "success"
    ELSE IF Param(u, "auth_status") = "error" /\ Param(u, "platform") = "x"
    THEN "error"
    ELSE "none"

\* the error branch without localStorage.removeItem('x-auth-status')
StorageAfterXErrorKept(store) == store

\* the error branch: localStorage.removeItem('x-auth-status')
StorageAfterXError(store) == RemoveItem(store, "x-auth-status")

\* the restoring branch: X state read from the stored x-auth-status
StoredXAuth(store) ==
    IF "x-auth-status" \in DOMAIN store
    THEN LET authData == JsonParse(store["x-auth-status"])
         IN  IF /\ "isConnected" \in DOMAIN authData /\ authData.isConnected
                /\ FieldOrStr(authData, "username", "") # ""
                /\ FieldOrStr(authData, "userId", "") # ""
             THEN [isXConnected |-> TRUE, xUsername |-> Str(authData.username),
                   xUserId |-> Str(authData.userId)]
             ELSE [isXConnected |-> FALSE, xUsername |-> Null, xUserId |-> Null]
    ELSE [isXConnected |-> FALSE, xUsername |-> Null, xUserId |-> Null]

\* errorDetails ? `${errorMsg} Details: ${errorDetails}` : errorMsg
XAuthErrorMessage(u) ==
    LET errorMsg == IF Param(u, "message") # "" THEN u.message
                    ELSE "Unknown error during X authentication."
    IN  IF Param(u, "details") # "" THEN errorMsg \o " Details: " \o u.details
        ELSE errorMsg

\* the X callback effect, run once on mount
XAuthOnMount(u, store, now) ==
    IF XCallback(u) = "success"
    THEN [isXConnected |-> TRUE, xUsername |-> Str(u.username), xUserId |-> Str(u.user_id),
          storage |-> SetItem(store, "x-auth-status",
                              JsonStringify([isConnected |-> TRUE, username |-> u.username,
                                             userId |-> u.user_id,
                                             walletPrincipal |-> u.wallet_principal,
                                             timestamp |-> now])),
          url |-> <<>>, error |-> ""]
    ELSE IF XCallback(u) = "error"
    THEN [isXConnected |-> FALSE, xUsername |-> Null, xUserId |-> Null,
          storage |-> StorageAfterXError(store),
          url |-> <<>>,
          error |-> XAuthErrorMessage(u)]
    ELSE StoredXAuth(store) @@ [storage |-> store, url |-> u, error |-> ""]

-----------------------------------------------------------------------------
(* ScarcityIndicator: useWebSocket and the subscription effect *)

\* Index has not rendered a ScarcityIndicator yet
NoIndicator ==
    [mounted |-> FALSE, socket |-> Null, isConnected |-> FALSE,
     artist |-> "", eventType |-> "", sub |-> Null,
     initialRemainingSlots |-> 0, initialTotalSupply |-> 0,
     remainingSlots |-> 0, totalSupply |-> 0, shown |-> Null]

\* socket.off('scarcity_update', handleScarcityUpdate): the listener added last
\* with this closure is removed
Off(listeners, handler) ==
    IF \E i \in DOMAIN listeners : listeners[i] = handler
    THEN LET last == CHOOSE i \in DOMAIN listeners :
                        /\ listeners[i] = handler
                        /\ \A j \in DOMAIN listeners : listeners[j] = handler => j <= i
         IN  [j \in 1..(Len(listeners) - 1) |->
                 IF j < last THEN listeners[j] ELSE listeners[j + 1]]
    ELSE listeners

\* the cleanup returned by the subscription effect
SubscriptionCleanup(ind) ==
    IF ind.sub = Null THEN ind
    ELSE IF ind.socket.connected
    THEN [ind EXCEPT !.socket.listeners = Off(ind.socket.listeners, ind.sub),
                     !.sub = Null]
    ELSE [ind EXCEPT !.sub = Null]

\* the body of the subscription effect
SubscriptionEffect(ind) ==
    IF ind.socket # Null /\ ind.isConnected
    THEN LET handler == [artist |-> ind.artist, event_type |-> ind.eventType]
         IN  [ind EXCEPT !.socket.listeners = Append(ind.socket.listeners, handler),
                         !.sub = handler]
    ELSE ind

\* a render with changed dependencies: the old cleanup, then the effect
Resubscribe(ind, artist, eventType) ==
    SubscriptionEffect([SubscriptionCleanup(ind) EXCEPT !.artist = artist,
                                                        !.eventType = eventType])

\* initialTotalSupply={getScarcityForCombination(...)?.total_limit || 0}
InitialTotalSupply(cache, artist, eventType) ==
    OrNum(GetScarcityForCombination(cache, artist, eventType), "total_limit", 0)

\* initialRemainingSlots={getScarcityForCombination(...)?.remaining_slots || 0}
InitialRemainingSlots(cache, artist, eventType) ==
    OrNum(GetScarcityForCombination(cache, artist, eventType), "remaining_slots", 0)

\* useEffect(..., [initialRemainingSlots, initialTotalSupply]): the displayed
\* values follow the props whenever one of the props has changed
PropsEffect(ind, remaining, total) ==
    IF remaining # ind.initialRemainingSlots \/ total # ind.initialTotalSupply
    THEN [ind EXCEPT !.initialRemainingSlots = remaining, !.initialTotalSupply = total,
                     !.remainingSlots = remaining, !.totalSupply = total]
    ELSE ind

\* the first renders: useWebSocket creates the socket, nothing is subscribed yet
MountIndicator(artist, eventType, remaining, total) ==
    [mounted |-> TRUE,
     socket |-> [connected |-> FALSE, active |-> TRUE, listeners |-> <<>>],
     isConnected |-> FALSE, artist |-> artist, eventType |-> eventType, sub |-> Null,
     initialRemainingSlots |-> remaining, initialTotalSupply |-> total,
     remainingSlots |-> remaining, totalSupply |-> total, shown |-> Null]

\* unmount: the cleanup of useWebSocket (newSocket.disconnect()), then the
\* cleanup of the subscription effect
UnmountIndicator(ind) ==
    [SubscriptionCleanup([ind EXCEPT !.socket.connected = FALSE,
                                     !.socket.active = FALSE])
        EXCEPT !.mounted = FALSE, !.isConnected = FALSE, !.shown = Null]

\* {selectedArtist && selectedEvent && <ScarcityIndicator .../>} after a render
\* of Index
IndicatorAfterRender(ind, ph, artist, eventType, cache) ==
    LET shown == ph = "mounted" /\ artist # "" /\ eventType # ""
        remaining == InitialRemainingSlots(cache, artist, eventType)
        total == InitialTotalSupply(cache, artist, eventType)
    IN  IF ~ind.mounted
        THEN IF shown THEN MountIndicator(artist, eventType, remaining, total) ELSE ind
        ELSE IF shown
        THEN LET sameSelection == artist = ind.artist /\ eventType = ind.eventType
             IN  Resubscribe([PropsEffect(ind, remaining, total) EXCEPT
                                 !.shown = IF sameSelection THEN @ ELSE Null],
                             artist, eventType)
        ELSE UnmountIndicator(ind)

\* the map callback of onScarcityChange
ApplyScarcityChange(combo, artist, eventType, remaining) ==
    IF combo.artist = artist /\ combo.event_type = eventType
    THEN Spread(combo,
             [scarcity_info |->
                 Spread(ScarcityInfoOf(combo),
                        [minted_count |->
                             OrNum(ScarcityInfoOf(combo), "total_limit", 0) - remaining,
                         remaining_slots |-> remaining,
                         is_sold_out |-> remaining <= 0]),
              is_available |-> remaining > 0])
    ELSE combo

\* onScarcityChange: setAllCombinationsScarcity(prev => prev.map(...))
AfterScarcityChange(prev, artist, eventType, remaining) ==
    [i \in DOMAIN prev |-> ApplyScarcityChange(prev[i], artist, eventType, remaining)]

\* nftResult?.id, "" when there is no NFT or it has no id
NftIdOf(nft) ==
    IF nft # Null /\ "id" \in DOMAIN nft THEN nft.id ELSE ""

NoRooms == [emitted |-> <<>>, last |-> <<>>]

\* socketRef.current.emit(event, {nft_id})
EmitRoom(rooms, event, id) ==
    [emitted |-> Append(rooms.emitted, [event |-> event, nft_id |-> id]),
     last |-> [i \in {id} |-> event] @@ rooms.last]

\* the cleanup of the evolution room effect, with the id of the render it closed over
AfterEvolutionRoomCleanup(rooms, prev) ==
    LET start == [rooms EXCEPT !.emitted = <<>>]
    IN  IF NftIdOf(prev) # ""
        THEN EmitRoom(start, "leave_evolution_room", NftIdOf(prev))
        ELSE start

\* useEffect(..., [nftResult?.id, isWebSocketConnected]) after a render: when a
\* dependency changed, the previous cleanup runs and then the effect
AfterEvolutionRoomEffectJoinFirst(rooms, ph, prev, prevConnected, nft, connected) ==
    IF ph # "mounted" \/ (NftIdOf(prev) = NftIdOf(nft) /\ prevConnected = connected)
    THEN rooms
    ELSE LET start == [rooms EXCEPT !.emitted = <<>>]
             joined == IF NftIdOf(nft) # "" /\ connected
                       THEN EmitRoom(start, "join_evolution_room", NftIdOf(nft))
                       ELSE start
         IN  IF NftIdOf(prev) # ""
             THEN EmitRoom(joined, "leave_evolution_room", NftIdOf(prev))
             ELSE joined

AfterEvolutionRoomEffect(rooms, ph, prev, prevConnected, nft, connected) ==
    IF ph # "mounted" \/ (NftIdOf(prev) = NftIdOf(nft) /\ prevConnected = connected)
    THEN rooms
    ELSE LET left == AfterEvolutionRoomCleanup(rooms, prev)
         IN  IF NftIdOf(nft) # "" /\ connected
             THEN EmitRoom(left, "join_evolution_room", NftIdOf(nft))
             ELSE left

\* useState of WalletConnector: authClient null, authState loading; the mock
\* auth client is not authenticated and has no identity
NoConnector ==
    [phase |-> "new", authClient |-> FALSE,
     authenticated |-> FALSE, identity |-> Null, isAuthenticated |-> FALSE,
     authState |-> [isConnected |-> FALSE, principal |-> Null, loading |-> TRUE,
                    error |-> Null],
     logins |-> 0, started |-> 0, succeeded |-> 0, connected |-> <<>>]

-----------------------------------------------------------------------------
(* Initial state: the useState initial values, before the mount effects *)

Init ==
    /\ phase = "new"
    /\ mode = "basic"
    /\ customPrompt = [pad |-> 0, core |-> 0]
    /\ selectedArtist = ""
    /\ selectedEvent = ""
    /\ nftResult = Null
    /\ evolutionPeriod = DefaultEvolutionPeriod
    /\ wallet = Null
    /\ loadingStates = [initialData |-> FALSE, nftGeneration |-> FALSE,
                        combinations |-> FALSE, xAuth |-> FALSE, wallet |-> FALSE]
    /\ errors = <<>>
    /\ artists = <<>>
    /\ events = <<>>
    /\ retryCount = 0
    /\ allCombinationsScarcity = <<>>
    /\ socket = Null
    /\ isWebSocketConnected = FALSE
    /\ combosReq = "idle"
    /\ initFetches = 0
    /\ retryTimers = <<>>
    /\ retryLog = <<>>
    /\ indicator = NoIndicator
    /\ isXConnected = FALSE
    /\ xUsername = Null
    /\ xUserId = Null
    /\ storage = <<>>
    /\ url = <<>>
    /\ lastWalletOp = Null
    /\ createReqs = <<>>
    /\ nftFetches = {}
    /\ pushed = Null
    /\ evolutionRooms = NoRooms
    /\ connector = NoConnector
    /\ trail = [op |-> "init"]

-----------------------------------------------------------------------------
(* Mount effects of Index *)

\* useEffect: fetchInitialData(); fetchAllCombinationsScarcity();
\* useEffect: io(...), socket.on(...)
Mount ==
    /\ phase = "new"
    /\ phase' = "mounted"
    /\ loadingStates' = [loadingStates EXCEPT !.initialData = TRUE,
                                              !.combinations = TRUE]
    /\ initFetches' = initFetches + 1
    /\ combosReq' = "pending"
    /\ wallet' = RestoredWallet(storage, wallet)
    /\ \E now \in Times :
          LET x == XAuthOnMount(url, storage, now)
          IN  /\ isXConnected' = x.isXConnected
              /\ xUsername' = x.xUsername
              /\ xUserId' = x.xUserId
              /\ storage' = x.storage
              /\ url' = x.url
              /\ errors' = IF x.error = ""
                           THEN ClearError(errors, "initialization")
                           ELSE SetError(ClearError(errors, "initialization"),
                                         "xAuth", x.error)
    /\ lastWalletOp' = IF lastWalletOp # Null /\ XCallback(url) = "success"
                       THEN [lastWalletOp EXCEPT !.xSince = TRUE]
                       ELSE lastWalletOp
    /\ socket' = [connected |-> FALSE, listeners |-> SocketEvents]
    /\ trail' = [op |-> "mount", url |-> url, stored |-> DOMAIN storage]
    /\ UNCHANGED <<evolutionRooms, connector, indicator, nftResult, createReqs, mode, customPrompt, selectedArtist,
                   selectedEvent, evolutionPeriod, artists, events, retryCount,
                   retryTimers, retryLog, allCombinationsScarcity, isWebSocketConnected,
                   nftFetches, pushed>>

\* fetchAllCombinationsScarcity, from the response to the finally block
FetchCombinationsDone(resp) ==
    /\ combosReq = "pending"
    /\ combosReq' = "done"
    /\ allCombinationsScarcity' = AfterCombinationsResponse(allCombinationsScarcity, resp)
    /\ loadingStates' = LoadingAfterCombinations(loadingStates, resp)
    /\ trail' = [op |-> "combinations", resp |-> resp]
    /\ indicator' = IndicatorAfterRender(indicator, phase, selectedArtist, selectedEvent,
                                       allCombinationsScarcity')
    /\ UNCHANGED <<sessionVars, connector, evolutionRooms, phase, nftResult, errors, createReqs, formVars, dataVars,
                   socket, isWebSocketConnected, nftFetches, pushed>>

-----------------------------------------------------------------------------
(* The WebSocket of Index *)

\* socket.on('connect', ...)
SocketConnect ==
    /\ phase = "mounted"
    /\ ~socket.connected
    /\ socket' = [socket EXCEPT !.connected = TRUE]
    /\ isWebSocketConnected' = TRUE
    /\ errors' = ClearError(errors, "websocket")
    /\ trail' = [op |-> "connect"]
    /\ UNCHANGED <<sessionVars, connector, indicator, phase, nftResult, loadingStates, createReqs, formVars, dataVars,
                   allCombinationsScarcity, combosReq, nftFetches, pushed>>
    /\ evolutionRooms' = AfterEvolutionRoomEffect(evolutionRooms, phase, nftResult,
                                                  isWebSocketConnected, nftResult',
                                                  isWebSocketConnected')

\* socket.on('disconnect', ...): the transport or the server closed the connection
SocketDisconnect ==
    /\ phase = "mounted"
    /\ socket.connected
    /\ socket' = [socket EXCEPT !.connected = FALSE]
    /\ isWebSocketConnected' = FALSE
    /\ errors' = SetError(errors, "websocket", "WebSocket disconnected")
    /\ trail' = [op |-> "disconnect"]
    /\ UNCHANGED <<sessionVars, connector, indicator, phase, nftResult, loadingStates, createReqs, formVars, dataVars,
                   allCombinationsScarcity, combosReq, nftFetches, pushed>>
    /\ evolutionRooms' = AfterEvolutionRoomEffect(evolutionRooms, phase, nftResult,
                                                  isWebSocketConnected, nftResult',
                                                  isWebSocketConnected')

\* socket.on('connect_error', ...)
SocketConnectError ==
    /\ phase = "mounted"
    /\ ~socket.connected
    /\ isWebSocketConnected' = FALSE
    /\ errors' = SetError(errors, "websocket", "WebSocket connection error")
    /\ trail' = [op |-> "connect_error"]
    /\ UNCHANGED <<sessionVars, connector, indicator, phase, nftResult, loadingStates, createReqs, formVars, dataVars,
                   allCombinationsScarcity, socket, combosReq, nftFetches, pushed>>
    /\ evolutionRooms' = AfterEvolutionRoomEffect(evolutionRooms, phase, nftResult,
                                                  isWebSocketConnected, nftResult',
                                                  isWebSocketConnected')

\* the server emits new_mint; handleNewMint runs when the event is delivered
PushNewMint(data) ==
    /\ socket # Null
    /\ \A i \in DOMAIN allCombinationsScarcity :
          OrNum(ScarcityInfoOf(allCombinationsScarcity[i]), "minted_count", 0) < MaxMinted
    /\ allCombinationsScarcity' =
           IF Delivered("new_mint")
           THEN AfterNewMint(allCombinationsScarcity, data)
           ELSE allCombinationsScarcity
    /\ pushed' = IF Delivered("new_mint") THEN Null ELSE pushed
    /\ trail' = [op |-> "new_mint", data |-> data, handled |-> Delivered("new_mint")]
    /\ indicator' = IndicatorAfterRender(indicator, phase, selectedArtist, selectedEvent,
                                       allCombinationsScarcity')
    /\ UNCHANGED <<sessionVars, connector, evolutionRooms, phase, nftResult, loadingStates, errors, createReqs, formVars,
                   dataVars, socket, isWebSocketConnected, combosReq, nftFetches>>

\* the server emits scarcity_update; handleScarcityUpdate runs when delivered
PushScarcityUpdate(data) ==
    /\ socket # Null
    /\ allCombinationsScarcity' =
           IF Delivered("scarcity_update")
           THEN AfterScarcityUpdate(allCombinationsScarcity, data)
           ELSE allCombinationsScarcity
    /\ trail' = [op |-> "scarcity_update", data |-> data,
                 handled |-> Delivered("scarcity_update")]
    /\ pushed' = IF Delivered("scarcity_update") THEN data ELSE pushed
    /\ indicator' = IndicatorAfterRender(indicator, phase, selectedArtist, selectedEvent,
                                       allCombinationsScarcity')
    /\ UNCHANGED <<sessionVars, connector, evolutionRooms, phase, nftResult, loadingStates, errors, createReqs, formVars,
                   dataVars, socket, isWebSocketConnected, combosReq, nftFetches>>

\* the server emits evolution_update; handleEvolutionUpdate starts the refetch
PushEvolutionUpdate(data) ==
    /\ socket # Null
    /\ nftFetches' =
           IF Delivered("evolution_update")
           THEN nftFetches \cup {data.nft_id}
           ELSE nftFetches
    /\ trail' = [op |-> "evolution_update", data |-> data,
                 handled |-> Delivered("evolution_update")]
    /\ UNCHANGED <<sessionVars, connector, evolutionRooms, indicator, phase, nftResult, loadingStates, errors, createReqs, formVars,
                   dataVars, allCombinationsScarcity, socket, isWebSocketConnected,
                   combosReq, pushed>>

\* the refetched NFT as handleEvolutionUpdate stores it
RefetchedNft(prev, resp) ==
    IF resp.ok /\ resp.data # Null
    THEN [resp.data EXCEPT !.timestamp = @ * 1000]
    ELSE prev

\* handleEvolutionUpdate, the .then / .catch of axios.get(/api/nft/<id>)
NftFetchDone(id, resp) ==
    /\ id \in nftFetches
    /\ nftFetches' = nftFetches \ {id}
    /\ nftResult' = RefetchedNft(nftResult, resp)
    /\ trail' = [op |-> "nft_fetch", id |-> id, resp |-> resp]
    /\ UNCHANGED <<sessionVars, connector, indicator, phase, loadingStates, errors, createReqs, formVars, dataVars,
                   allCombinationsScarcity, socket, isWebSocketConnected, combosReq,
                   pushed>>
    /\ evolutionRooms' = AfterEvolutionRoomEffect(evolutionRooms, phase, nftResult,
                                                  isWebSocketConnected, nftResult',
                                                  isWebSocketConnected')

\* cleanup of the WebSocket effect: socket.off(...) x3, socket.disconnect();
\* disconnect() fires the 'disconnect' listener of a connected socket
Unmount ==
    /\ phase = "mounted"
    /\ phase' = "unmounted"
    /\ socket' = SocketAfterCleanup(socket)
    /\ isWebSocketConnected' = (isWebSocketConnected /\ socket'.connected)
    /\ errors' = IF socket.connected /\ ~socket'.connected
                 THEN SetError(errors, "websocket", "WebSocket disconnected")
                 ELSE errors
    /\ indicator' = IndicatorAfterRender(indicator, "unmounted", selectedArtist, selectedEvent,
                                       allCombinationsScarcity)
    /\ trail' = [op |-> "unmount"]
    /\ evolutionRooms' = AfterEvolutionRoomCleanup(evolutionRooms, nftResult)
    /\ UNCHANGED <<sessionVars, connector, nftResult, loadingStates, createReqs, formVars, dataVars,
                   allCombinationsScarcity, combosReq, nftFetches, pushed>>

-----------------------------------------------------------------------------
(* The form, the wallet and NFT generation *)

\* handleWalletConnected (the write to the key-value store left to its own
\* variable)
HandleWalletConnected(walletInfo, written) ==
    /\ phase = "mounted"
    /\ wallet' = walletInfo
    /\ loadingStates' = [loadingStates EXCEPT !.wallet = FALSE]
    /\ storage' = IF written
                  THEN SetItem(storage, "connected-wallet", JsonStringify(walletInfo))
                  ELSE storage
    /\ lastWalletOp' = [op |-> "connected", walletInfo |-> walletInfo,
                        written |-> written, xSince |-> FALSE]
    /\ trail' = [op |-> "wallet_connected"]
    /\ UNCHANGED <<evolutionRooms, connector, indicator, phase, nftResult, errors, createReqs, mode, customPrompt,
                   selectedArtist, selectedEvent, evolutionPeriod, dataVars, liveVars,
                   isXConnected, xUsername, xUserId, url>>

\* handleWalletDisconnected
HandleWalletDisconnected ==
    /\ phase = "mounted"
    /\ wallet' = Null
    /\ loadingStates' = [loadingStates EXCEPT !.wallet = FALSE]
    /\ isXConnected' = FALSE
    /\ xUsername' = Null
    /\ xUserId' = Null
    /\ storage' = StorageAfterDisconnect(storage)
    /\ lastWalletOp' = [op |-> "disconnected", walletInfo |-> Null,
                        written |-> TRUE, xSince |-> FALSE]
    /\ trail' = [op |-> "wallet_disconnected", hadX |-> isXConnected,
                 stored |-> DOMAIN storage]
    /\ UNCHANGED <<evolutionRooms, connector, indicator, phase, nftResult, errors, createReqs, mode, customPrompt,
                   selectedArtist, selectedEvent, evolutionPeriod, dataVars, liveVars, url>>

\* onClick={() => setMode(m)}
SetMode(m) ==
    /\ phase = "mounted"
    /\ mode' = m
    /\ trail' = [op |-> "set_mode"]
    /\ UNCHANGED <<sessionVars, connector, evolutionRooms, indicator, phase, nftResult, loadingStates, errors, createReqs, customPrompt,
                   selectedArtist, selectedEvent, evolutionPeriod, wallet, dataVars,
                   liveVars>>

\* onChange of the artist select
SetSelectedArtist(value) ==
    /\ phase = "mounted"
    /\ selectedArtist' = value
    /\ errors' = ClearError(errors, "validation")
    /\ indicator' = IndicatorAfterRender(indicator, phase, value, selectedEvent,
                                       allCombinationsScarcity)
    /\ trail' = [op |-> "set_artist"]
    /\ UNCHANGED <<sessionVars, connector, evolutionRooms, phase, nftResult, loadingStates, createReqs, mode, customPrompt,
                   selectedEvent, evolutionPeriod, wallet, dataVars, liveVars>>

\* onChange of the event select
SetSelectedEvent(value) ==
    /\ phase = "mounted"
    /\ selectedEvent' = value
    /\ errors' = ClearError(errors, "validation")
    /\ indicator' = IndicatorAfterRender(indicator, phase, selectedArtist, value,
                                       allCombinationsScarcity)
    /\ trail' = [op |-> "set_event"]
    /\ UNCHANGED <<sessionVars, connector, evolutionRooms, phase, nftResult, loadingStates, createReqs, mode, customPrompt,
                   selectedArtist, evolutionPeriod, wallet, dataVars, liveVars>>

\* onChange of the prompt textarea
SetCustomPrompt(value) ==
    /\ phase = "mounted"
    /\ customPrompt' = value
    /\ errors' = ClearError(errors, "validation")
    /\ trail' = [op |-> "set_prompt"]
    /\ UNCHANGED <<sessionVars, connector, evolutionRooms, indicator, phase, nftResult, loadingStates, createReqs, mode, selectedArtist,
                   selectedEvent, evolutionPeriod, wallet, dataVars, liveVars>>

\* the state handleUpdatePreview closes over
Closure ==
    [mode |-> mode, customPrompt |-> customPrompt, selectedArtist |-> selectedArtist,
     selectedEvent |-> selectedEvent, evolutionPeriod |-> evolutionPeriod]

\* handleUpdatePreview, from the click to the await of axios.post
HandleUpdatePreview ==
    /\ phase = "mounted"
    /\ LET cleared == ClearError(ClearError(errors, "nftGeneration"), "validation")
           validationError == ValidateForm(wallet, mode, customPrompt, selectedArtist,
                                           selectedEvent, allCombinationsScarcity)
       IN  IF wallet = Null
           THEN /\ errors' = SetError(cleared, "validation", WalletMessage)
                /\ trail' = [op |-> "update_preview", result |-> "invalid"]
                /\ UNCHANGED <<indicator, loadingStates, createReqs>>
           ELSE IF validationError # ""
           THEN /\ errors' = SetError(cleared, "validation", validationError)
                /\ trail' = [op |-> "update_preview", result |-> "invalid"]
                /\ UNCHANGED <<indicator, loadingStates, createReqs>>
           ELSE IF OwnerAddress(wallet) = ""
           THEN /\ errors' = SetError(cleared, "nftGeneration",
                                      GenerationError(InvalidWallet))
                /\ loadingStates' = [loadingStates EXCEPT !.nftGeneration = FALSE]
                /\ trail' = [op |-> "update_preview", result |-> "threw"]
                /\ UNCHANGED createReqs
           ELSE /\ errors' = cleared
                /\ loadingStates' = [loadingStates EXCEPT !.nftGeneration = TRUE]
                /\ createReqs' = Append(createReqs,
                       [request |-> RequestData(wallet, mode, customPrompt, selectedArtist,
                                                selectedEvent, evolutionPeriod),
                        closure |-> Closure])
                /\ trail' = [op |-> "update_preview", result |-> "sent"]
    /\ UNCHANGED <<sessionVars, connector, evolutionRooms, indicator, phase, nftResult, formVars, dataVars, liveVars>>

RemoveAt(seq, i) == [j \in 1..(Len(seq) - 1) |-> IF j < i THEN seq[j] ELSE seq[j + 1]]

\* handleUpdatePreview, from the settling of axios.post to the finally block
CreateNftDone(i, outcome, now) ==
    /\ i \in DOMAIN createReqs
    /\ createReqs' = RemoveAt(createReqs, i)
    /\ nftResult' = NftResultAfterCreate(nftResult, outcome, createReqs[i].closure, now)
    /\ errors' = ErrorsAfterCreate(errors, outcome)
    /\ loadingStates' = [loadingStates EXCEPT !.nftGeneration = FALSE]
    /\ trail' = [op |-> "create_done", outcome |-> outcome,
                 closure |-> createReqs[i].closure]
    /\ UNCHANGED <<sessionVars, connector, indicator, phase, formVars, dataVars, liveVars>>
    /\ evolutionRooms' = AfterEvolutionRoomEffect(evolutionRooms, phase, nftResult,
                                                  isWebSocketConnected, nftResult',
                                                  isWebSocketConnected')

GenerateSnapshots ==
    {<<Combo("Da Vinci", "architecture", 1, 1), Combo("Monet", "architecture", 1, 0)>>,
     <<Combo("Monet", "architecture", 1, 1), Combo("Da Vinci", "architecture", 1, 0),
       Combo("Da Vinci", "architecture", 1, 1)>>}

\* the form and the sending of the request, with one response and one failure
NextGenerate ==
    \/ Mount
    \/ \E s \in GenerateSnapshots :
          FetchCombinationsDone([ok |-> TRUE, data |-> [combinations |-> JsArray(s)]])
    \/ \E w \in WalletInfos : HandleWalletConnected(w, TRUE)
    \/ HandleWalletDisconnected
    \/ \E m \in {"basic", "advanced"} : SetMode(m)
    \/ \E a \in {"Da Vinci"} : SetSelectedArtist(a)
    \/ \E e \in EventTypes : SetSelectedEvent(e)
    \/ \E p \in Prompts : SetCustomPrompt(p)
    \/ (Len(createReqs) < MaxInFlight /\ HandleUpdatePreview)
    \/ \E i \in DOMAIN createReqs :
          \E outcome \in {[kind |-> "response", data |-> FullNft], Timeout} :
             \E now \in Times : CreateNftDone(i, outcome, now)

SpecGenerate == Init /\ [][NextGenerate]_vars

\* the handling of every response and failure, for one wallet
NextResponse ==
    \/ Mount
    \/ HandleWalletConnected([principal |-> "aaaaa-aa", accountId |-> "acc-1",
                              isConnected |-> TRUE], TRUE)
    \/ \E m \in {"basic", "advanced"} : SetMode(m)
    \/ \E a \in {"Da Vinci"} : SetSelectedArtist(a)
    \/ \E e \in EventTypes : SetSelectedEvent(e)
    \/ SetCustomPrompt([pad |-> 1, core |-> 10])
    \/ (Len(createReqs) < MaxInFlight /\ HandleUpdatePreview)
    \/ \E i \in DOMAIN createReqs :
          \E outcome \in CreateResponses \cup CreateFailures :
             \E now \in Times : CreateNftDone(i, outcome, now)

SpecResponse == Init /\ [][NextResponse]_vars

-----------------------------------------------------------------------------
(* Initial data fetch and its retry *)

Min(a, b) == IF a <= b THEN a ELSE b

\* 1000 * Math.pow(2, newRetryCount - 1), without the cap
RetryDelayUncapped(newRetryCount) == 1000 * 2 ^ (newRetryCount - 1)

\* Math.min(1000 * Math.pow(2, newRetryCount - 1), 5000)
RetryDelay(newRetryCount) == Min(1000 * 2 ^ (newRetryCount - 1), BackoffCap)

\* what the two GET requests of fetchInitialData can produce
InitialDataResponses ==
    {[kind |-> "response", artists |-> JsArray(<<"Da Vinci", "Monet">>),
      events |-> JsArray(<<"architecture", "portrait">>)],
     [kind |-> "response", artists |-> JsArray(<<>>), events |-> JsArray(<<>>)],
     [kind |-> "response", events |-> JsArray(<<"architecture">>)],
     [kind |-> "response", artists |-> JsArray(<<"Monet">>), events |-> [type |-> "object"]],
     [kind |-> "axios", code |-> "ECONNABORTED", message |-> "timeout of 8000ms exceeded"],
     [kind |-> "axios", code |-> "ERR_BAD_RESPONSE", status |-> 500,
      message |-> "Request failed with status code 500"],
     [kind |-> "axios", code |-> "ERR_NETWORK", message |-> "Network Error"]}

\* the validation of the two response bodies
InitialDataError(resp) ==
    IF resp.kind # "response" THEN resp
    ELSE IF ~("artists" \in DOMAIN resp /\ IsArray(resp.artists))
    THEN [kind |-> "error", message |-> "Invalid artists data received from server"]
    ELSE IF ~("events" \in DOMAIN resp /\ IsArray(resp.events))
    THEN [kind |-> "error", message |-> "Invalid events data received from server"]
    ELSE Null

InitializationErrorUnclassified(error) ==
    CreateAPIError(error, "loading initial data")

\* the catch block of fetchInitialData: the value of errors.initialization
InitializationError(error) ==
    IF error.kind = "axios" /\ "code" \in DOMAIN error /\ error.code = "ECONNABORTED"
    THEN [message |-> "Request timed out. Please check your connection and try again.",
          code |-> "TIMEOUT"]
    ELSE CreateAPIError(error, "loading initial data")

\* retryCount after fetchInitialData has finished
RetryCountAfterFetch(prev, resp) ==
    IF InitialDataError(resp) = Null THEN 0 ELSE prev

FirstOr(arr, prev) == IF Len(arr.items) > 0 THEN arr.items[1] ELSE prev

\* fetchInitialData, from the responses to the finally block
FetchInitialDataDone(resp) ==
    /\ initFetches > 0
    /\ initFetches' = initFetches - 1
    /\ IF InitialDataError(resp) = Null
       THEN /\ artists' = resp.artists.items
            /\ events' = resp.events.items
            /\ selectedArtist' = FirstOr(resp.artists, selectedArtist)
            /\ selectedEvent' = FirstOr(resp.events, selectedEvent)
            /\ retryLog' = <<>>
            /\ errors' = errors
       ELSE /\ errors' = SetError(errors, "initialization",
                                  InitializationError(InitialDataError(resp)))
            /\ UNCHANGED <<artists, events, selectedArtist, selectedEvent, retryLog>>
    /\ retryCount' = RetryCountAfterFetch(retryCount, resp)
    /\ loadingStates' = [loadingStates EXCEPT !.initialData = FALSE]
    /\ indicator' = IndicatorAfterRender(indicator, phase, selectedArtist', selectedEvent',
                                       allCombinationsScarcity)
    /\ trail' = [op |-> "initial_data", resp |-> resp]
    /\ UNCHANGED <<sessionVars, connector, evolutionRooms, phase, nftResult, createReqs, mode, customPrompt, evolutionPeriod,
                   wallet, retryTimers, liveVars>>

\* retryFetchInitialData, the onRetry of the initialization ErrorAlert
RetryFetchInitialData ==
    /\ phase = "mounted"
    /\ "initialization" \in DOMAIN errors
    /\ retryCount < MaxRetries
    /\ Len(retryTimers) < MaxPending
    /\ retryCount' = retryCount + 1
    /\ retryTimers' = Append(retryTimers, RetryDelay(retryCount + 1))
    /\ retryLog' = Append(retryLog, RetryDelay(retryCount + 1))
    /\ trail' = [op |-> "retry", delay |-> RetryDelay(retryCount + 1)]
    /\ UNCHANGED <<sessionVars, connector, evolutionRooms, indicator, phase, nftResult, loadingStates, errors, createReqs, formVars,
                   artists, events, initFetches, liveVars>>

\* a timer can expire once no timer set before it with a delay as short is pending
CanExpire(i) ==
    /\ i \in DOMAIN retryTimers
    /\ \A j \in 1..(i - 1) : retryTimers[j] > retryTimers[i]

\* the setTimeout callback: fetchInitialData(true), up to its await
RetryTimerFires(i) ==
    /\ CanExpire(i)
    /\ initFetches < MaxPending
    /\ retryTimers' = RemoveAt(retryTimers, i)
    /\ errors' = ClearError(errors, "initialization")
    /\ initFetches' = initFetches + 1
    /\ trail' = [op |-> "retry_timer"]
    /\ UNCHANGED <<sessionVars, connector, evolutionRooms, indicator, phase, nftResult, loadingStates, createReqs, formVars, artists,
                   events, retryCount, retryLog, liveVars>>

NextRetry ==
    \/ Mount
    \/ \E resp \in InitialDataResponses : FetchInitialDataDone(resp)
    \/ RetryFetchInitialData
    \/ \E i \in 1..MaxPending : RetryTimerFires(i)
    \/ Unmount

SpecRetry == Init /\ [][NextRetry]_vars

\* C19: fetchInitialData updates artists, events and the default selections
\* (first artist, first event) only when both responses hold valid arrays; when
\* a request fails, times out or is malformed, artists, events, selectedArtist
\* and selectedEvent are unchanged and errors.initialization is set, with code
\* TIMEOUT for a timed-out request; in every case the initialData loading flag
\* is false when the call completes.
C19_InitialDataAllOrNothing ==
    [][trail'.op = "initial_data" =>
        LET resp == trail'.resp
            valid == /\ resp.kind = "response"
                     /\ "artists" \in DOMAIN resp /\ resp.artists.type = "array"
                     /\ "events" \in DOMAIN resp /\ resp.events.type = "array"
        IN  /\ ~loadingStates'.initialData
            /\ valid =>
                  /\ artists' = resp.artists.items
                  /\ events' = resp.events.items
                  /\ selectedArtist' = IF resp.artists.items # <<>>
                                        THEN resp.artists.items[1] ELSE selectedArtist
                  /\ selectedEvent' = IF resp.events.items # <<>>
                                       THEN resp.events.items[1] ELSE selectedEvent
            /\ ~valid =>
                  /\ UNCHANGED <<artists, events, selectedArtist, selectedEvent>>
                  /\ "initialization" \in DOMAIN errors'
                  /\ (resp.kind = "axios" /\ resp.code = "ECONNABORTED") =>
                         /\ "code" \in DOMAIN errors'.initialization
                         /\ errors'.initialization.code = "TIMEOUT"]_vars

\* a retry that timed out after another call had loaded the lists: the lists
\* and the selection are still there, the error is classified TIMEOUT
C19_Witness ==
    /\ trail.op = "initial_data"
    /\ trail.resp.kind = "axios"
    /\ trail.resp.code = "ECONNABORTED"
    /\ artists # <<>>
    /\ selectedArtist = artists[1]
    /\ "initialization" \in DOMAIN errors
    /\ errors.initialization.code = "TIMEOUT"
    /\ ~loadingStates.initialData

\* C5: the n-th retry since the last successful fetch is scheduled after
\* min(1000 * 2^(n-1), 5000) ms; the delays of consecutive retries never
\* decrease and never exceed 5000 ms; after a successful fetch retryCount is 0,
\* so the next retry waits 1000 ms.
C5_RetryBackoff ==
    /\ retryCount = Len(retryLog)
    /\ \A n \in DOMAIN retryLog :
          /\ retryLog[n] = IF 1000 * 2 ^ (n - 1) <= 5000 THEN 1000 * 2 ^ (n - 1) ELSE 5000
          /\ retryLog[n] <= 5000
          /\ n > 1 => retryLog[n - 1] <= retryLog[n]
    /\ (trail.op = "initial_data" /\ InitialDataError(trail.resp) = Null) => retryCount = 0
    /\ (trail.op = "retry" /\ Len(retryLog) = 1) => trail.delay = 1000

\* capped retries, then a successful fetch, then a retry that waits 1000 ms
\* while the 5000 ms timer of the earlier run is still pending
C5_Witness ==
    /\ trail.op = "retry"
    /\ retryLog = <<1000>>
    /\ retryTimers = <<5000, 1000>>

-----------------------------------------------------------------------------
(* The indicator's socket *)

\* newSocket.on('connect'): setIsConnected(true), then the subscription effect
IndicatorSocketConnect ==
    /\ indicator.mounted
    /\ ~indicator.socket.connected
    /\ indicator.socket.active
    /\ Len(indicator.socket.listeners) < MaxListeners
    /\ indicator' = Resubscribe([indicator EXCEPT !.socket.connected = TRUE,
                                                  !.isConnected = TRUE],
                                indicator.artist, indicator.eventType)
    /\ trail' = [op |-> "indicator_connect"]
    /\ UNCHANGED <<sessionVars, connector, evolutionRooms, phase, nftResult, loadingStates, errors, createReqs, formVars,
                   dataVars, liveVars>>

\* newSocket.on('disconnect'): setIsConnected(false), then the cleanup of the
\* subscription effect; the client reconnects unless the server closed the socket
IndicatorSocketDisconnect(reason) ==
    /\ indicator.mounted
    /\ indicator.socket.connected
    /\ indicator' = Resubscribe([indicator EXCEPT
                                    !.socket.connected = FALSE,
                                    !.socket.active = (reason # "io server disconnect"),
                                    !.isConnected = FALSE],
                                indicator.artist, indicator.eventType)
    /\ trail' = [op |-> "indicator_disconnect", reason |-> reason]
    /\ UNCHANGED <<sessionVars, connector, evolutionRooms, phase, nftResult, loadingStates, errors, createReqs, formVars,
                   dataVars, liveVars>>

\* the handleScarcityUpdate listeners of the indicator's socket: every listener
\* whose closure names the message's combination sets the displayed values and
\* calls onScarcityChange, then Index and the indicator render again
IndicatorPushScarcityUpdate(data) ==
    /\ indicator.mounted
    /\ indicator.socket.connected
    /\ LET listeners == indicator.socket.listeners
           handled == \E i \in DOMAIN listeners :
                          /\ data.artist = listeners[i].artist
                          /\ data.event_type = listeners[i].event_type
           own == data.artist = indicator.artist /\ data.event_type = indicator.eventType
       IN  /\ allCombinationsScarcity' =
                  IF handled
                  THEN AfterScarcityChange(allCombinationsScarcity, data.artist,
                                           data.event_type, data.remaining_slots)
                  ELSE allCombinationsScarcity
           /\ indicator' =
                  IF handled
                  THEN IndicatorAfterRender(
                           [indicator EXCEPT !.remainingSlots = data.remaining_slots,
                                             !.totalSupply = data.total_supply,
                                             !.shown = IF own THEN data ELSE @],
                           phase, selectedArtist, selectedEvent, allCombinationsScarcity')
                  ELSE indicator
           /\ trail' = [op |-> "indicator_scarcity_update", data |-> data,
                        handled |-> handled]
    /\ UNCHANGED <<sessionVars, connector, evolutionRooms, phase, nftResult, loadingStates, errors, createReqs, formVars,
                   dataVars, socket, isWebSocketConnected, combosReq, nftFetches, pushed>>

\* the scarcity_update messages of the indicator's rooms
IndicatorMessages ==
    {m \in [artist : Artists, event_type : EventTypes, remaining_slots : Slots,
            total_supply : Limits \cup Supplies, is_available : BOOLEAN] :
        m.is_available = (m.remaining_slots > 0)}

NextIndicator ==
    \/ Mount
    \/ \E resp \in InitialDataResponses : FetchInitialDataDone(resp)
    \/ \E i \in DOMAIN artists : SetSelectedArtist(artists[i])
    \/ \E i \in DOMAIN events : SetSelectedEvent(events[i])
    \/ IndicatorSocketConnect
    \/ \E reason \in {"transport close", "io server disconnect"} :
          IndicatorSocketDisconnect(reason)
    \/ \E data \in IndicatorMessages : IndicatorPushScarcityUpdate(data)
    \/ \E resp \in CombosResponses : FetchCombinationsDone(resp)
    \/ Unmount

SpecIndicator == Init /\ [][NextIndicator]_vars

\* C7: over any sequence of connects, disconnects and selection changes at
\* most one scarcity_update listener of the indicator is registered on its
\* socket.
C7_AtMostOneListener ==
    indicator.socket # Null => Len(indicator.socket.listeners) <= 1

\* C13: once the indicator has processed a scarcity_update of its own
\* combination it displays the message's remaining_slots and total_supply until
\* the next such update or a change of the selected combination
C13_DisplaysLastUpdate ==
    (indicator.mounted /\ indicator.shown # Null) =>
        /\ indicator.remainingSlots = indicator.shown.remaining_slots
        /\ indicator.totalSupply = indicator.shown.total_supply

-----------------------------------------------------------------------------
(* Page loads, wallet persistence and the X account *)

\* the query strings a page load can carry
Urls ==
    {<<>>,
     [auth_status |-> "success", platform |-> "x", username |-> "alice",
      user_id |-> "x-42", wallet_principal |-> "aaaaa-aa"],
     [auth_status |-> "success", platform |-> "x", username |-> "",
      user_id |-> "x-42", wallet_principal |-> "aaaaa-aa"],
     [auth_status |-> "success", platform |-> "x", username |-> "alice",
      user_id |-> "x-42"],
     [auth_status |-> "error", platform |-> "x", message |-> "denied",
      details |-> "scope"],
     [auth_status |-> "error", platform |-> "x"],
     [auth_status |-> "error", platform |-> "github"]}

\* wallets WalletConnector can report
SessionWallets ==
    WalletInfos \cup {[principal |-> "bbbbb-bb", accountId |-> "", isConnected |-> TRUE,
                       balance |-> 3]}

\* a load of the page: a new document with fresh component state; localStorage
\* is kept, requests and sockets of the previous document are gone
FreshPage(u) ==
    /\ phase \in {"mounted", "unmounted"}
    /\ phase' = "new"
    /\ url' = u
    /\ mode' = "basic"
    /\ customPrompt' = [pad |-> 0, core |-> 0]
    /\ selectedArtist' = ""
    /\ selectedEvent' = ""
    /\ nftResult' = Null
    /\ evolutionPeriod' = DefaultEvolutionPeriod
    /\ wallet' = Null
    /\ loadingStates' = [initialData |-> FALSE, nftGeneration |-> FALSE,
                         combinations |-> FALSE, xAuth |-> FALSE, wallet |-> FALSE]
    /\ errors' = <<>>
    /\ artists' = <<>>
    /\ events' = <<>>
    /\ retryCount' = 0
    /\ allCombinationsScarcity' = <<>>
    /\ socket' = Null
    /\ isWebSocketConnected' = FALSE
    /\ combosReq' = "idle"
    /\ initFetches' = 0
    /\ retryTimers' = <<>>
    /\ retryLog' = <<>>
    /\ createReqs' = <<>>
    /\ nftFetches' = {}
    /\ pushed' = Null
    /\ indicator' = NoIndicator
    /\ evolutionRooms' = NoRooms
    /\ connector' = NoConnector
    /\ isXConnected' = FALSE
    /\ xUsername' = Null
    /\ xUserId' = Null
    /\ trail' = [op |-> "load"]
    /\ UNCHANGED <<storage, lastWalletOp>>

NextSession ==
    \/ Mount
    \/ \E w \in SessionWallets : \E written \in BOOLEAN : HandleWalletConnected(w, written)
    \/ HandleWalletDisconnected
    \/ Unmount
    \/ \E u \in Urls : FreshPage(u)

SpecSession == Init /\ [][NextSession]_vars

HasIdentity(w) == w.principal # "" \/ w.accountId # ""

\* C11: a mount that follows handleWalletConnected(w) with a successful
\* storage write and a non-empty principal or accountId restores a wallet equal
\* to w; a mount that follows handleWalletDisconnected restores no wallet, and
\* no X connection unless an X callback has connected the account since.
C11_WalletRoundTrip ==
    [][(trail'.op = "mount" /\ lastWalletOp # Null) =>
        /\ (/\ lastWalletOp.op = "connected"
            /\ lastWalletOp.written
            /\ HasIdentity(lastWalletOp.walletInfo)) => wallet' = lastWalletOp.walletInfo
        /\ lastWalletOp.op = "disconnected" =>
              /\ wallet' = Null
              /\ (~lastWalletOp.xSince /\ XCallback(url) # "success") =>
                    (~isXConnected' /\ xUsername' = Null /\ xUserId' = Null)]_vars

\* a page load has restored a wallet that has an accountId but no principal
C11_Witness ==
    /\ trail.op = "mount"
    /\ lastWalletOp # Null
    /\ lastWalletOp.op = "connected"
    /\ wallet = [principal |-> "", accountId |-> "acc-1", isConnected |-> TRUE]

\* C16: after handleWalletDisconnected the wallet is null, isXConnected is
\* false, xUsername and xUserId are null and localStorage holds neither
\* connected-wallet nor x-auth-status, whatever was there before.
C16_DisconnectClearsX ==
    [][trail'.op = "wallet_disconnected" =>
        /\ wallet' = Null
        /\ ~isXConnected'
        /\ xUsername' = Null
        /\ xUserId' = Null
        /\ DOMAIN storage' \cap {"connected-wallet", "x-auth-status"} = {}]_vars

\* the handler has run with a wallet and an X status stored and X connected
C16_Witness ==
    /\ trail.op = "wallet_disconnected"
    /\ trail.hadX
    /\ trail.stored = {"connected-wallet", "x-auth-status"}
    /\ storage = <<>>

\* the stored x-auth-status has isConnected, username and userId
StoredStatusValid(store) ==
    /\ "x-auth-status" \in DOMAIN store
    /\ store["x-auth-status"].isConnected = "true"
    /\ store["x-auth-status"].username # Quoted("")
    /\ store["x-auth-status"].userId # Quoted("")

CompleteSuccess(u) ==
    /\ Param(u, "auth_status") = "success" /\ Param(u, "platform") = "x"
    /\ Param(u, "username") # "" /\ Param(u, "user_id") # ""
    /\ Param(u, "wallet_principal") # ""

ErrorCallback(u) == Param(u, "auth_status") = "error" /\ Param(u, "platform") = "x"

\* the URL carries a callback of the X authentication, complete or not
XCallbackPresent(u) ==
    Param(u, "platform") = "x" /\ Param(u, "auth_status") \in {"success", "error"}

-----------------------------------------------------------------------------
(* The Generate button and the Update Preview button of the NFT preview *)

\* the disabled attribute of the Generate button
GenerateDisabled ==
    \/ wallet = Null
    \/ loadingStates.initialData
    \/ loadingStates.nftGeneration
    \/ /\ mode = "basic"
       /\ \/ selectedArtist = ""
          \/ selectedEvent = ""
          \/ LET info == GetScarcityForCombination(allCombinationsScarcity,
                                                   selectedArtist, selectedEvent)
             IN  IF "is_sold_out" \in DOMAIN info THEN info.is_sold_out ELSE TRUE
    \/ mode = "advanced" /\ Trim(customPrompt).core = 0

\* <button onClick={handleUpdatePreview} disabled={...}>
ClickGenerate ==
    /\ ~GenerateDisabled
    /\ HandleUpdatePreview

\* {nftResult && <NFTPreview isAdvancedMode={mode === 'advanced'}
\* onUpdatePreview={handleUpdatePreview}/>}: the button is rendered when
\* isAdvancedMode && onUpdatePreview and has no disabled attribute
ClickUpdatePreview ==
    /\ nftResult # Null
    /\ mode = "advanced"
    /\ HandleUpdatePreview

NextClicks ==
    \/ Mount
    \/ FetchInitialDataDone([kind |-> "response",
                             artists |-> JsArray(<<"Da Vinci", "Monet">>),
                             events |-> JsArray(<<"architecture", "portrait">>)])
    \/ \E s \in GenerateSnapshots :
          FetchCombinationsDone([ok |-> TRUE, data |-> [combinations |-> JsArray(s)]])
    \/ HandleWalletConnected([principal |-> "aaaaa-aa", accountId |-> "acc-1",
                              isConnected |-> TRUE], TRUE)
    \/ \E m \in {"basic", "advanced"} : SetMode(m)
    \/ SetCustomPrompt([pad |-> 1, core |-> 10])
    \/ (Len(createReqs) < MaxClickRequests /\ ClickGenerate)
    \/ (Len(createReqs) < MaxClickRequests /\ ClickUpdatePreview)
    \/ \E i \in DOMAIN createReqs :
          \E outcome \in {[kind |-> "response", data |-> FullNft], Timeout} :
             \E now \in Times : CreateNftDone(i, outcome, now)

SpecClicks == Init /\ [][NextClicks]_vars

\* C22: at most one create-nft request is in flight at any time, and the
\* nftGeneration loading flag is true whenever a create-nft request is pending
C22_OneRequestInFlight ==
    /\ Len(createReqs) <= 1
    /\ createReqs # <<>> => loadingStates.nftGeneration

CacheMarksSoldOut(artist, eventType) ==
    IsSoldOut(GetScarcityForCombination(allCombinationsScarcity, artist, eventType))

\* C23: in basic and in advanced mode, no create-nft request is sent whose
\* artist and event_type name a combination that the scarcity cache marks
\* is_sold_out = true at the moment of sending
C23_NoRequestForSoldOut ==
    [][Len(createReqs') > Len(createReqs) =>
        LET sentReq == createReqs'[Len(createReqs')].request
        IN  ~CacheMarksSoldOut(sentReq.artist, sentReq.event_type)]_vars

-----------------------------------------------------------------------------
(* WalletConnector (src/src/components/ArtistDropdown.tsx) *)

\* what generateMockPrincipal can return
Principals ==
    {"abcde-fghij-klmno-pqrst-uvwxy-z2-cai", "abcde-fghij-klmno-pqrst-uvwxy-z3-cai"}

\* String.prototype.substring(0, end)
Substring0(text, end) == SubSeq(text, 1, IF end <= Len(text) THEN end ELSE Len(text))

GenerateAccountIdWhole(principalId) == principalId

\* generateAccountId: principal.toString().substring(0, 32)
GenerateAccountId(principalId) == Substring0(principalId, AccountIdLength)

otherVars ==
    <<phase, nftResult, loadingStates, errors, createReqs, indicator, evolutionRooms,
      formVars, dataVars, liveVars, sessionVars>>

\* useEffect(() => { initializeAuth(); }, []) up to await MockAuthClient.create()
ConnectorMount ==
    /\ connector.phase = "new"
    /\ connector' = [connector EXCEPT !.phase = "creating"]
    /\ trail' = [op |-> "connector_mount"]
    /\ UNCHANGED otherVars

\* initializeAuth after create(): setAuthClient(client), then checkAuthStatus up
\* to await client.isAuthenticated()
AuthClientCreated ==
    /\ connector.phase = "creating"
    /\ connector' = [connector EXCEPT !.phase = "checking", !.authClient = TRUE,
                                      !.isAuthenticated = connector.authenticated]
    /\ trail' = [op |-> "auth_client_created"]
    /\ UNCHANGED otherVars

\* the state and the callback of a connection with the client's identity
ConnectedWith(conn, principal) ==
    [conn EXCEPT
        !.authState = [isConnected |-> TRUE, principal |-> Str(principal),
                       loading |-> FALSE, error |-> Null],
        !.connected = Append(@, [principal |-> principal,
                                 accountId |-> GenerateAccountId(principal),
                                 isConnected |-> TRUE])]

\* checkAuthStatus after isAuthenticated(), with the value read when it was
\* called; getIdentity() makes a new identity when the client has none
AuthStatusChecked(principal) ==
    /\ connector.phase = "checking"
    /\ connector' =
           [(IF connector.isAuthenticated
             THEN IF connector.identity # Null
                  THEN ConnectedWith(connector, connector.identity.str)
                  ELSE ConnectedWith([connector EXCEPT !.identity = Str(principal)],
                                     principal)
             ELSE [connector EXCEPT !.authState.loading = FALSE])
               EXCEPT !.phase = "ready"]
    /\ trail' = [op |-> "auth_status_checked"]
    /\ UNCHANGED otherVars

\* the Connect button is rendered unless authState.isConnected && authState.principal
ConnectRendered ==
    /\ connector.phase # "new"
    /\ ~(connector.authState.isConnected /\ connector.authState.principal # Null)

\* handleConnect up to the await of authClient.login
HandleConnect ==
    /\ ConnectRendered
    /\ IF ~connector.authClient
       THEN /\ connector' = [connector EXCEPT !.authState.error =
                                [code |-> "CLIENT_NOT_READY",
                                 message |-> "Authentication client is not ready"]]
            /\ trail' = [op |-> "wallet_connect", result |-> "not_ready"]
       ELSE /\ connector.started < MaxConnects
            /\ connector' = [connector EXCEPT !.authState.loading = TRUE,
                                              !.authState.error = Null,
                                              !.logins = @ + 1,
                                              !.started = @ + 1]
            /\ trail' = [op |-> "wallet_connect", result |-> "started"]
    /\ UNCHANGED otherVars

\* the end of authClient.login and the rest of handleConnect: MockAuthClient
\* sets a new identity and calls onSuccess; the promise is rejected when
\* onError is called or the executor throws
LoginDone(outcome, principal) ==
    /\ connector.logins > 0
    /\ connector' =
           IF outcome = "success"
           THEN ConnectedWith([connector EXCEPT !.logins = @ - 1,
                                                !.succeeded = @ + 1,
                                                !.authenticated = TRUE,
                                                !.identity = Str(principal)],
                              principal)
           ELSE [connector EXCEPT !.logins = @ - 1,
                                  !.authState.loading = FALSE,
                                  !.authState.error =
                                      [code |-> "CONNECTION_FAILED",
                                       message |-> "Authentication failed"]]
    /\ trail' = [op |-> "login_done", outcome |-> Str(outcome)]
    /\ UNCHANGED otherVars

\* handleDisconnect: authClient.logout(), authState reset, onWalletDisconnected()
HandleDisconnect ==
    /\ connector.authState.isConnected
    /\ connector.authState.principal # Null
    /\ connector.authClient
    /\ connector' = [connector EXCEPT
                        !.authenticated = FALSE, !.identity = Null,
                        !.authState = [isConnected |-> FALSE, principal |-> Null,
                                       loading |-> FALSE, error |-> Null]]
    /\ trail' = [op |-> "wallet_disconnect"]
    /\ UNCHANGED otherVars

\* the Dismiss button of the error box
ClearWalletError ==
    /\ connector.authState.error # Null
    /\ connector' = [connector EXCEPT !.authState.error = Null]
    /\ trail' = [op |-> "clear_error"]
    /\ UNCHANGED otherVars

NextWallet ==
    \/ ConnectorMount
    \/ AuthClientCreated
    \/ \E principal \in Principals : AuthStatusChecked(principal)
    \/ HandleConnect
    \/ \E outcome \in {"success", "error"} : \E principal \in Principals :
          LoginDone(outcome, principal)
    \/ HandleDisconnect
    \/ ClearWalletError

SpecWallet == Init /\ [][NextWallet]_vars

LastConnected == connector.connected[Len(connector.connected)]

ConnectorUnchanged(field) == connector'.authState[field] = connector.authState[field]

-----------------------------------------------------------------------------
(* Evolution rooms and evolution updates *)

\* create-nft responses that carry the id of the generated NFT
EvolutionCreateOutcomes ==
    {[kind |-> "response", data |-> [FullNft EXCEPT !.nft_id = id]] : id \in NftIds}
    \cup {Timeout}

\* the server sends evolution_update to the members of the NFT's room
InEvolutionRoom(id) ==
    /\ id \in DOMAIN evolutionRooms.last
    /\ evolutionRooms.last[id] = "join_evolution_room"

NextEvolution ==
    \/ Mount
    \/ SocketConnect
    \/ SocketDisconnect
    \/ SocketConnectError
    \/ HandleWalletConnected([principal |-> "aaaaa-aa", accountId |-> "acc-1",
                              isConnected |-> TRUE], TRUE)
    \/ \E a \in {"Da Vinci"} : SetSelectedArtist(a)
    \/ \E e \in EventTypes : SetSelectedEvent(e)
    \/ (Len(createReqs) < MaxInFlight /\ HandleUpdatePreview)
    \/ \E i \in DOMAIN createReqs :
          \E outcome \in EvolutionCreateOutcomes :
             \E now \in Times : CreateNftDone(i, outcome, now)
    \/ \E data \in [nft_id : NftIds] :
          InEvolutionRoom(data.nft_id) /\ PushEvolutionUpdate(data)
    \/ \E id \in NftIds : \E resp \in NftResponses(id) : NftFetchDone(id, resp)
    \/ Unmount

SpecEvolution == Init /\ [][NextEvolution]_vars

\* C14: nftResult is replaced as the result of an evolution_update only when
\* the message's nft_id is the id of the NFT held in nftResult when the
\* refetched data is applied
C14_EvolutionOnlyForHeldNft ==
    [][(trail'.op = "nft_fetch" /\ nftResult' # nftResult)
           => trail'.id = NftIdOf(nftResult)]_vars

\* C15: when the displayed NFT changes from A to another id B while the socket
\* is connected, leave_evolution_room for A is emitted before
\* join_evolution_room for B; and whenever an NFT id is displayed and the socket
\* is connected, the last evolution-room message emitted for that id is a join
C15_LeaveBeforeJoin ==
    /\ [][(/\ phase = "mounted" /\ phase' = "mounted"
           /\ socket.connected /\ socket'.connected
           /\ NftIdOf(nftResult) # "" /\ NftIdOf(nftResult') # ""
           /\ NftIdOf(nftResult') # NftIdOf(nftResult))
          => evolutionRooms'.emitted =
                 <<[event |-> "leave_evolution_room", nft_id |-> NftIdOf(nftResult)],
                   [event |-> "join_evolution_room", nft_id |-> NftIdOf(nftResult')]>>]_vars
    /\ []((phase = "mounted" /\ socket.connected /\ NftIdOf(nftResult) # "")
             => InEvolutionRoom(NftIdOf(nftResult)))

C15_Witness ==
    /\ phase = "mounted"
    /\ socket.connected
    /\ NftIdOf(nftResult) = "nft-2"
    /\ evolutionRooms.emitted =
           <<[event |-> "leave_evolution_room", nft_id |-> "nft-1"],
             [event |-> "join_evolution_room", nft_id |-> "nft-2"]>>

-----------------------------------------------------------------------------
(* Properties of NFT generation (SpecGenerate, SpecResponse) *)

\* the entry getScarcityForCombination finds for the selection is sold out
SelectedSoldOut ==
    \E i \in DOMAIN allCombinationsScarcity :
        /\ allCombinationsScarcity[i].artist = selectedArtist
        /\ allCombinationsScarcity[i].event_type = selectedEvent
        /\ \A j \in 1..(i - 1) :
              ~(/\ allCombinationsScarcity[j].artist = selectedArtist
                /\ allCombinationsScarcity[j].event_type = selectedEvent)
        /\ allCombinationsScarcity[i].scarcity_info.is_sold_out

NothingSent ==
    /\ createReqs' = createReqs
    /\ nftResult' = nftResult
    /\ loadingStates'.nftGeneration = loadingStates.nftGeneration

C17_ShortPromptBlocked ==
    [][(trail'.op = "update_preview" /\ mode = "advanced") =>
        LET longEnough == /\ Trim(customPrompt).core # 0
                          /\ Length(Trim(customPrompt)) >= MinPromptLength
        IN  /\ trail'.result = "sent" => longEnough
            /\ ~longEnough => /\ "validation" \in DOMAIN errors'
                              /\ NothingSent]_vars

\* a connected wallet, a prompt of ten characters of which nine remain after
\* trimming: refused with the length message
C17_Witness ==
    /\ trail.op = "update_preview"
    /\ trail.result = "invalid"
    /\ mode = "advanced"
    /\ wallet # Null
    /\ customPrompt = [pad |-> 1, core |-> 9]
    /\ "validation" \in DOMAIN errors
    /\ errors.validation = "Custom prompt must be at least 10 characters long"
    /\ createReqs = <<>>

\* C18: in advanced mode validateForm accepts a custom prompt only if its
\* trimmed length is less than 500; a prompt whose trimmed length is not less
\* than 500 is refused with 'Custom prompt must be less than 500 characters'.
C18_LongPromptRejected ==
    [][(/\ trail'.op = "update_preview" /\ mode = "advanced"
        /\ wallet # Null /\ OwnerAddress(wallet) # ""
        /\ Length(Trim(customPrompt)) >= MaxPromptLength) =>
        /\ NothingSent
        /\ "validation" \in DOMAIN errors'
        /\ errors'.validation = "Custom prompt must be less than 500 characters"]_vars

\* C9: a create-nft request is sent only with a wallet connected, and its
\* owner_address is non-empty and is the wallet's principal, or its accountId
\* when the principal is empty.
C9_OwnerAddress ==
    [][Len(createReqs') > Len(createReqs) =>
        /\ wallet # Null
        /\ LET sentReq == createReqs'[Len(createReqs')].request
           IN  /\ sentReq.owner_address # ""
               /\ sentReq.owner_address =
                      IF wallet.principal # "" THEN wallet.principal
                      ELSE wallet.accountId]_vars

\* a request in flight carries the accountId of a wallet without principal
C9_Witness ==
    /\ wallet # Null
    /\ wallet.principal = ""
    /\ \E i \in DOMAIN createReqs :
          createReqs[i].request.owner_address = wallet.accountId

FailedOutcome(outcome) ==
    \/ outcome.kind = "axios"
    \/ /\ outcome.kind = "response"
       /\ DOMAIN outcome.data \cap {"nft_id", "nft", "data", "result"} = {}

ExpectedClass(outcome) ==
    IF outcome.kind = "axios" /\ "code" \in DOMAIN outcome /\ outcome.code = "ECONNABORTED"
    THEN "TIMEOUT"
    ELSE IF outcome.kind = "axios" /\ "status" \in DOMAIN outcome /\ outcome.status = 429
    THEN "RATE_LIMIT"
    ELSE IF outcome.kind = "axios" /\ "status" \in DOMAIN outcome /\ outcome.status = 500
    THEN "SERVER_ERROR"
    ELSE "API"

ClassOf(apiError) ==
    IF "code" \in DOMAIN apiError
       /\ apiError.code \in {"TIMEOUT", "RATE_LIMIT", "SERVER_ERROR"}
    THEN apiError.code
    ELSE "API"

\* C6: a failed create-nft attempt sets errors.nftGeneration to a value
\* classified TIMEOUT for a timed-out request, RATE_LIMIT for status 429,
\* SERVER_ERROR for status 500 and as a generic API error otherwise, keeps
\* nftResult and ends with the nftGeneration loading flag false.
C6_FailureClassified ==
    [][(trail'.op = "create_done" /\ FailedOutcome(trail'.outcome)) =>
        /\ "nftGeneration" \in DOMAIN errors'
        /\ ClassOf(errors'.nftGeneration) = ExpectedClass(trail'.outcome)
        /\ "message" \in DOMAIN errors'.nftGeneration
        /\ nftResult' = nftResult
        /\ ~loadingStates'.nftGeneration]_vars

\* a status 500 failure after an earlier success: the NFT is still shown
C6_Witness ==
    /\ trail.op = "create_done"
    /\ "status" \in DOMAIN trail.outcome
    /\ trail.outcome.status = 500
    /\ errors.nftGeneration.code = "SERVER_ERROR"
    /\ nftResult # Null
    /\ ~loadingStates.nftGeneration

NftDataFields ==
    {"id", "image_uri", "artist", "event_type", "version", "timestamp", "genetic_traits",
     "scarcity_info", "prompt", "evolution_history", "evolution_period_days"}

\* C10: the NFT record built from a create-nft response has every field, and
\* its image_uri is the server URL built from image_url when image_url is
\* present, the response's image_uri when image_url is absent, and the empty
\* string when both are absent.
C10_ImageUriFallback ==
    [][(trail'.op = "create_done" /\ ~FailedOutcome(trail'.outcome)) =>
        LET nft == NftOfResponse(trail'.outcome.data)
        IN  /\ DOMAIN nftResult' = NftDataFields
            /\ nftResult'.image_uri =
                   IF "image_url" \in DOMAIN nft
                   THEN "http://localhost:5000" \o nft.image_url
                   ELSE IF "image_uri" \in DOMAIN nft THEN nft.image_uri
                   ELSE ""]_vars

NextLive ==
    \/ Mount
    \/ \E resp \in CombosResponses : FetchCombinationsDone(resp)
    \/ SocketConnect
    \/ SocketDisconnect
    \/ SocketConnectError
    \/ \E data \in NewMintMessages : PushNewMint(data)
    \/ \E data \in ScarcityUpdateMessages : PushScarcityUpdate(data)
    \/ \E data \in [nft_id : {"nft-1"}] : PushEvolutionUpdate(data)
    \/ \E id \in NftIds : \E resp \in NftResponses(id) : NftFetchDone(id, resp)
    \/ Unmount

SpecLive == Init /\ [][NextLive]_vars

-----------------------------------------------------------------------------
(* Properties of the scarcity cache and of the socket handlers (SpecLive) *)

ResponseHasArray(resp) ==
    resp.ok /\ "combinations" \in DOMAIN resp.data
            /\ resp.data.combinations.type = "array"

\* C2: a handled scarcity_update for (artist, event_type) leaves every cached
\* combination of that artist and event type with remaining_slots, minted_count
\* = total_supply - remaining_slots, is_sold_out = (remaining_slots <= 0) and
\* is_available taken from the message, and every other combination as it was.
C2_ScarcityUpdateApplied ==
    [][(trail'.op = "scarcity_update" /\ trail'.handled) =>
        LET m == trail'.data
            old == allCombinationsScarcity
            new == allCombinationsScarcity'
        IN  /\ DOMAIN new = DOMAIN old
            /\ \A i \in DOMAIN old :
                  IF old[i].artist = m.artist /\ old[i].event_type = m.event_type
                  THEN /\ new[i].artist = m.artist
                       /\ new[i].event_type = m.event_type
                       /\ new[i].scarcity_info.remaining_slots = m.remaining_slots
                       /\ new[i].scarcity_info.minted_count =
                              m.total_supply - m.remaining_slots
                       /\ new[i].scarcity_info.is_sold_out = (m.remaining_slots <= 0)
                       /\ new[i].is_available = m.is_available
                  ELSE new[i] = old[i]]_vars

\* a handled update that met a combination of its own and one of another artist,
\* with an is_available that the slots alone would not give
C2_Witness ==
    /\ trail.op = "scarcity_update"
    /\ trail.handled
    /\ trail.data.is_available = (trail.data.remaining_slots <= 0)
    /\ \E i, j \in DOMAIN allCombinationsScarcity :
          /\ SameCombination(allCombinationsScarcity[i], trail.data)
          /\ ~SameCombination(allCombinationsScarcity[j], trail.data)
          /\ allCombinationsScarcity[i].scarcity_info.total_supply = trail.data.total_supply

\* C12: a handled new_mint for (artist, event_type) raises minted_count of
\* every cached combination with that artist and event_type by exactly 1 and
\* sets remaining_slots = total_limit - minted_count, is_sold_out =
\* (remaining_slots <= 0) and is_available = (remaining_slots > 0); every other
\* cached combination is unchanged.
C12_NewMintApplied ==
    [][(trail'.op = "new_mint" /\ trail'.handled) =>
        LET m == trail'.data
            old == allCombinationsScarcity
            new == allCombinationsScarcity'
        IN  /\ DOMAIN new = DOMAIN old
            /\ \A i \in DOMAIN old :
                  IF old[i].artist = m.artist /\ old[i].event_type = m.event_type
                  THEN /\ new[i].artist = m.artist
                       /\ new[i].event_type = m.event_type
                       /\ new[i].scarcity_info.minted_count =
                              old[i].scarcity_info.minted_count + 1
                       /\ new[i].scarcity_info.total_limit = old[i].scarcity_info.total_limit
                       /\ new[i].scarcity_info.remaining_slots =
                              new[i].scarcity_info.total_limit
                                 - new[i].scarcity_info.minted_count
                       /\ new[i].scarcity_info.is_sold_out =
                              (new[i].scarcity_info.remaining_slots <= 0)
                       /\ new[i].is_available = (new[i].scarcity_info.remaining_slots > 0)
                  ELSE new[i] = old[i]]_vars

\* a handled new_mint that took the last slot of its combination and met a
\* combination of another artist
C12_Witness ==
    /\ trail.op = "new_mint"
    /\ trail.handled
    /\ \E i, j \in DOMAIN allCombinationsScarcity :
          /\ SameCombination(allCombinationsScarcity[i], trail.data)
          /\ allCombinationsScarcity[i].scarcity_info.remaining_slots = 0
          /\ ~allCombinationsScarcity[i].is_available
          /\ ~SameCombination(allCombinationsScarcity[j], trail.data)

\* C3: once the /api/combinations snapshot and a scarcity_update for one of its
\* combinations have both been processed, the cached remaining_slots and
\* is_sold_out of that combination are those of the scarcity_update, in
\* whichever order the two were processed.
C3_PushSurvivesSnapshot ==
    (combosReq = "done" /\ pushed # Null) =>
        \A i \in DOMAIN allCombinationsScarcity :
            SameCombination(allCombinationsScarcity[i], pushed) =>
                /\ allCombinationsScarcity[i].scarcity_info.remaining_slots =
                       pushed.remaining_slots
                /\ allCombinationsScarcity[i].scarcity_info.is_sold_out =
                       (pushed.remaining_slots <= 0)

\* C4: fetchAllCombinationsScarcity replaces the cache by the combinations array
\* of the response when there is one, leaves it as it was on a failure or on a
\* response of another shape, and always ends with loadingStates.combinations
\* false.
C4_CombinationsFetch ==
    [][trail'.op = "combinations" =>
        /\ allCombinationsScarcity' =
               IF ResponseHasArray(trail'.resp)
               THEN trail'.resp.data.combinations.items
               ELSE allCombinationsScarcity
        /\ ~loadingStates'.combinations]_vars

\* the request failed, the cache is what it was and the flag is down
C4_Witness ==
    /\ trail.op = "combinations"
    /\ ~trail.resp.ok
    /\ combosReq = "done"
    /\ ~loadingStates.combinations

\* C8: unmounting Index removes its new_mint, scarcity_update and
\* evolution_update listeners and disconnects its socket, and no event the
\* server pushes after that changes the cache or nftResult, or starts a refetch.
C8_UnmountSilencesSocket ==
    [][/\ phase' = "unmounted" =>
              (socket'.listeners \cap SocketEvents = {} /\ ~socket'.connected)
       /\ (phase = "unmounted" /\ trail'.op \in SocketEvents) =>
              /\ allCombinationsScarcity' = allCombinationsScarcity
              /\ nftResult' = nftResult
              /\ nftFetches' = nftFetches]_vars

\* after the unmount the server pushed an update for a cached combination whose
\* slots differ from the message: the handler would have changed the cache
C8_Witness ==
    /\ phase = "unmounted"
    /\ trail.op = "scarcity_update"
    /\ ~trail.handled
    /\ \E i \in DOMAIN allCombinationsScarcity :
          /\ SameCombination(allCombinationsScarcity[i], trail.data)
          /\ allCombinationsScarcity[i].scarcity_info.remaining_slots #
                 trail.data.remaining_slots

====
